---- MODULE Spec2Model ----
(***************************************************************************)
(* PokeMarket Tracker (src/pokemarket.py): the dataset loader with its two *)
(* st.cache_data caches, the favorites store with its GitHub and local     *)
(* backends, and the Streamlit script run that edits and saves favorites.  *)
(*                                                                         *)
(* Three specifications share the module:                                  *)
(*   SpecData  the data directory, discover_expansions and the cached      *)
(*             load_one_excel / load_all_data_dynamic;                     *)
(*   SpecFav   load_user_favorites / save_user_favorites called by two     *)
(*             sessions against the remote document and the local file;    *)
(*   SpecUI    one session's script reruns (filters, data editor, preview  *)
(*             toggles, save button, import).                              *)
(***************************************************************************)
EXTENDS Integers, Sequences, FiniteSets, TLC

VARIABLES
    \* ---- data directory and loader (SpecData)
    disk,        \* filename -> content of the file, or Absent
    cacheOne,    \* st.cache_data of load_one_excel: filename -> frame or NotCached
    cacheAll,    \* st.cache_data of load_all_data_dynamic: set of <<key, value>>
    table,       \* df returned by the last load_all_data_dynamic
    concat,      \* the pd.concat of the frames of the last executed body
    truth,       \* what a parse of the files' current content gave at the last load
    sigs,        \* <<signature of the previous load, signature of the last load>>
    dsteps,      \* number of data operations so far
    \* ---- favorites store (SpecFav)
    configured,  \* GITHUB_TOKEN and GH_REPO are both set in st.secrets
    remote,      \* content of GH_FAV_PATH in the repository, or absent
    localFile,   \* content of data/.favorites_local.json, or absent
    sess,        \* per session: username, user_favs, backend handle
    hist,        \* <<the call before the last, the last call>> of load / save
    fsteps,      \* number of store calls so far
    ffails,      \* number of failed HTTP or file operations so far
    \* ---- one session's script runs (SpecUI)
    sel_esp,     \* sidebar multiselect "Espansioni"
    query,       \* sidebar text input "Cerca per nome carta"
    show_only_favs, \* sidebar checkbox "Mostra solo Preferiti"
    override,    \* st.session_state["show_only_favs_override"]
    edBase,      \* the view the data editor shows: CardKey -> Preferito
    edits,       \* the data editor's edited cells: CardKey -> Preferito
    togg,        \* state of the preview toggles fav_<key>: "unset", "on", "off"
    up,          \* the file held by the file_uploader, or none
    pending,     \* st.rerun() was called: a run is due
    lastRun,     \* what the last script run did
    usteps       \* number of script runs so far

dataVars == <<disk, cacheOne, cacheAll, table, concat, truth, sigs, dsteps>>
favVars == <<configured, remote, localFile, sess, hist, fsteps, ffails>>
uiVars == <<sel_esp, query, show_only_favs, override, edBase, edits, togg, up, pending,
            lastRun, usteps>>
vars == <<dataVars, favVars, uiVars>>
notData == <<favVars, uiVars>>
notFav == <<dataVars, uiVars>>

Absent == "absent"
Corrupt == "corrupt"

\* ------------------------------------------------------------------ bounds
MaxDataSteps == 4
MaxFavSteps == 4
MaxFailures == 1
MaxUISteps == 4

\* ------------------------------------------------------------------ data files
\* The .xlsx files the data directory may hold, in sorted(files) order.
FileOrder == <<"df_prezzi151-a.xlsx", "df_prezzi151-b.xlsx", "prezzi_pokemon_Paradox-Rift.xlsx">>
Files == {FileOrder[i] : i \in 1..Len(FileOrder)}

\* prettify_expansion_label: a base name containing "151" is the set "151".
prettify_expansion_label(filename) ==
    CASE filename = "df_prezzi151-a.xlsx" -> "151"
      [] filename = "df_prezzi151-b.xlsx" -> "151"
      [] filename = "prezzi_pokemon_Paradox-Rift.xlsx" -> "Paradosso Temporale"
      [] OTHER -> filename

\* The spreadsheets a file may hold: hasId says whether the sheet has the
\* "ID completo" column, rows are the sheet's rows in source order.
Sheets == {"s1", "s2", "s3", "s4"}
SheetHasId(c) == c # "s4"
SheetRows(c) ==
    CASE c = "s1" -> << [id |-> "001", val |-> "s1r1"], [id |-> "002", val |-> "s1r2"] >>
      [] c = "s2" -> << [id |-> "002", val |-> "s2r1"], [id |-> "001", val |-> "s2r2"] >>
      [] c = "s3" -> << [id |-> "003", val |-> "s3r1"], [id |-> "003", val |-> "s3r2"] >>
      [] c = "s4" -> << [id |-> "", val |-> "s4r1"] >>
      [] OTHER -> << >>
\* os.path.getsize of a file with that content ("s1" and "s3" have equal size)
SheetSize(c) ==
    CASE c = "s1" -> 5100
      [] c = "s2" -> 5200
      [] c = "s3" -> 5100
      [] c = "s4" -> 4900
      [] OTHER -> 17

Contents == Sheets \cup {Corrupt}

\* ------------------------------------------------------------------ loader
\* discover_expansions: the sorted .xlsx files of the directory ...
discovered(d) == SelectSeq(FileOrder, LAMBDA f : d[f] # Absent)
\* ... and the index signature, the (filename, size) pairs in that order.
index_signature(d) ==
    [i \in 1..Len(discovered(d)) |-> <<discovered(d)[i], SheetSize(d[discovered(d)[i]])>>]

\* load_one_excel's body on a readable sheet: the default for a missing
\* "ID completo" column, the Espansione column and the CardKey.
CardId(c, esp, i) ==
    IF SheetHasId(c) THEN <<"id", SheetRows(c)[i].id, 0>> ELSE <<"auto", esp, i - 1>>
CardKey(esp, id) == <<esp, "|", id>>
load_one_excel(c, esp) ==
    [i \in 1..Len(SheetRows(c)) |->
        [id  |-> CardId(c, esp, i),
         val |-> SheetRows(c)[i].val,
         esp |-> esp,
         key |-> CardKey(esp, CardId(c, esp, i))]]

\* A drop_duplicates that keeps, of the rows with one key, the last (keep="last").
drop_duplicates_last(df) ==
    LET marked == [i \in 1..Len(df) |->
                     [row |-> df[i], keep |-> \A j \in (i+1)..Len(df) : df[j].key # df[i].key]]
        kept == SelectSeq(marked, LAMBDA e : e.keep)
    IN  [i \in 1..Len(kept) |-> kept[i].row]
\* df.drop_duplicates(subset=["CardKey"]): keep="first" is the default.
drop_duplicates(df) ==
    LET marked == [i \in 1..Len(df) |->
                     [row |-> df[i], keep |-> \A j \in 1..(i-1) : df[j].key # df[i].key]]
        kept == SelectSeq(marked, LAMBDA e : e.keep)
    IN  [i \in 1..Len(kept) |-> kept[i].row]

RECURSIVE ConcatFrames(_)
ConcatFrames(frames) ==
    IF frames = << >> THEN << >> ELSE Head(frames) \o ConcatFrames(Tail(frames))

\* The cache of load_one_excel after the loop of load_all_data_dynamic over
\* `files`: a hit leaves the entry, a miss parses the file's content now and
\* stores the frame; a parse that raises stores nothing. The key is
\* (path, espansione), and espansione is a function of the path.
CacheOneAfter(files, d, cache) ==
    [f \in Files |->
        IF f \in {files[i] : i \in 1..Len(files)} /\ ~cache[f].cached /\ d[f] \in Sheets
        THEN [cached |-> TRUE, frame |-> load_one_excel(d[f], prettify_expansion_label(f))]
        ELSE cache[f]]

\* frames of load_all_data_dynamic: one frame per listed file whose load did
\* not raise, in mapping order. The mapping is the listing discover_expansions
\* made in the same run, so every listed file exists and `missing` stays empty.
FramesOf(files, cache) ==
    LET got == SelectSeq(files, LAMBDA f : cache[f].cached)
    IN  [i \in 1..Len(got) |-> cache[got[i]].frame]

\* What a parse of the current content of every listed file gives.
FreshCache(files, d) ==
    CacheOneAfter(files, d, [f \in Files |-> [cached |-> FALSE, frame |-> << >>]])

\* ------------------------------------------------------------------ favorites documents
Users == {"ann", "bob"}
\* CardKeys, named by their rank in Python's string order
Keys == {1, 2}
Sessions == {"A", "B"}

\* A stored text and what json.loads makes of it share one shape:
\*   kind "ok"        {"users": {name: [key, ...]}}
\*   kind "nousers"   a JSON object without "users"
\*   kind "badusers"  a JSON object whose "users" is not an object
\*   kind "list"      a JSON value that is no object (an array, a string, a number)
\*   kind "null"      JSON null, Python None
\*   kind "garbage"   a text that is not base64 of JSON / not JSON
\*   kind "absent"    no file
Doc(k, us) == [kind |-> k, users |-> us]
EmptyDoc == Doc("ok", << >>)
NoneObj == Doc("null", << >>)
AbsentFile == Doc("absent", << >>)
NoSha == Doc("nosha", << >>)

\* GitHub's "sha" of a file is the git blob hash of its content: equal
\* contents have equal sha, different contents different ones.
Sha(content) == content

RECURSIVE sorted(_)
\* sorted(list(favorites_set))
sorted(S) ==
    IF S = {} THEN << >>
    ELSE LET m == CHOOSE x \in S : \A y \in S : x <= y
         IN  <<m>> \o sorted(S \ {m})
\* set(arr)
set(arr) == {arr[i] : i \in 1..Len(arr)}

\* base64.b64decode(...).decode("utf-8"); json.loads(decoded), with the
\* except branch for what does not decode.
DecodeContent(content) ==
    IF content.kind = "garbage" THEN EmptyDoc ELSE content

\* read_favorites_from_github with the GET's outcome:
\*   "served"  the service answers 200 with the file, or 404 without one
\*   "neterr"  requests.get raises
\*   "http5xx" any status other than 200 and 404
\*   "badbody" status 200 whose body is not the JSON object r.json()/data.get need
\* A 404 answered like any other failure (no empty document).
read_favorites_from_github_404fails(outcome) ==
    IF ~configured
    THEN [obj |-> NoneObj, sha |-> NoSha, warned |-> FALSE, raised |-> FALSE]
    ELSE CASE outcome = "neterr" ->
                [obj |-> NoneObj, sha |-> NoSha, warned |-> TRUE, raised |-> FALSE]
           [] outcome = "badbody" ->
                [obj |-> NoneObj, sha |-> NoSha, warned |-> FALSE, raised |-> TRUE]
           [] outcome = "served" /\ remote.kind # "absent" ->
                [obj |-> DecodeContent(remote), sha |-> Sha(remote),
                 warned |-> FALSE, raised |-> FALSE]
           [] OTHER ->
                [obj |-> NoneObj, sha |-> NoSha, warned |-> TRUE, raised |-> FALSE]
read_favorites_from_github(outcome) ==
    IF ~configured
    THEN [obj |-> NoneObj, sha |-> NoSha, warned |-> FALSE, raised |-> FALSE]
    ELSE CASE outcome = "neterr" ->
                [obj |-> NoneObj, sha |-> NoSha, warned |-> TRUE, raised |-> FALSE]
           [] outcome = "badbody" ->
                [obj |-> NoneObj, sha |-> NoSha, warned |-> FALSE, raised |-> TRUE]
           [] outcome = "served" /\ remote.kind # "absent" ->
                [obj |-> DecodeContent(remote), sha |-> Sha(remote),
                 warned |-> FALSE, raised |-> FALSE]
           [] outcome = "served" /\ remote.kind = "absent" ->
                [obj |-> EmptyDoc, sha |-> NoSha, warned |-> FALSE, raised |-> FALSE]
           [] OTHER ->
                [obj |-> NoneObj, sha |-> NoSha, warned |-> TRUE, raised |-> FALSE]

\* read_favorites_local: json.load of the file, {"users": {}} when the file
\* is missing or does not parse.
read_favorites_local ==
    IF localFile.kind \in {"absent", "garbage"} THEN EmptyDoc ELSE localFile

\* obj.get("users", {}).get(username, []) and set(arr): raises when obj or
\* obj["users"] has no .get
GetRaises(obj) == obj.kind \in {"list", "badusers", "null"}
UsersOf(obj) == IF obj.kind = "ok" THEN obj.users ELSE << >>
ArrOf(obj, username) ==
    IF username \in DOMAIN UsersOf(obj) THEN UsersOf(obj)[username] ELSE << >>

NoHandle == [name |-> "none", obj |-> NoneObj, sha |-> NoSha]

\* load_user_favorites(username), given what the remote read returned
load_user_favorites(username, r) ==
    IF r.raised
    THEN [raised |-> TRUE, favs |-> {}, backend |-> NoHandle]
    ELSE IF r.obj.kind # "null"
    THEN IF GetRaises(r.obj)
         THEN [raised |-> TRUE, favs |-> {}, backend |-> NoHandle]
         ELSE [raised |-> FALSE, favs |-> set(ArrOf(r.obj, username)),
               backend |-> [name |-> "github", obj |-> r.obj, sha |-> r.sha]]
    ELSE IF GetRaises(read_favorites_local)
         THEN [raised |-> TRUE, favs |-> {}, backend |-> NoHandle]
         ELSE [raised |-> FALSE, favs |-> set(ArrOf(read_favorites_local, username)),
               backend |-> [name |-> "local", obj |-> read_favorites_local, sha |-> NoSha]]

\* A save that builds a fresh document holding only this user's list.
SavedObj_OnlyUser(obj, username, favorites_set) ==
    Doc("ok", [x \in {username} |-> sorted(favorites_set)])
\* A save that forgets obj["users"] = users: a document that had no "users"
\* stays without.
SavedObj_NoAttach(obj, username, favorites_set) ==
    IF obj.kind = "nousers" THEN obj
    ELSE Doc("ok", [x \in DOMAIN UsersOf(obj) \cup {username} |->
                 IF x = username THEN sorted(favorites_set) ELSE UsersOf(obj)[x]])
\* save_user_favorites, lines 291-296: the document after
\* users[username] = sorted(list(favorites_set)); obj["users"] = users
SavedObj(obj, username, favorites_set) ==
    LET o == IF obj.kind = "null" THEN EmptyDoc ELSE obj
    IN  Doc("ok", [x \in DOMAIN UsersOf(o) \cup {username} |->
                 IF x = username THEN sorted(favorites_set) ELSE UsersOf(o)[x]])

\* The sha of the file as it is in the repository now, fetched again before the write.
TokenForWrite_Fresh(backend) == IF remote.kind = "absent" THEN NoSha ELSE Sha(remote)
\* save_user_favorites passes the handle's sha as old_sha; "if old_sha:"
\* attaches it to the payload.
TokenForWrite(backend) == backend.sha

\* The contents API's answer to a PUT that reaches it: a file that exists is
\* replaced only when the payload's sha is the sha of its content; a file that
\* does not exist is created by a PUT without sha.
ServiceAccepts(token) ==
    IF remote.kind = "absent" THEN token = NoSha ELSE token = Sha(remote)

\* write_favorites_to_github with the PUT's outcome ("served", "neterr", "http5xx")
write_favorites_to_github(new_obj, old_sha, outcome) ==
    IF ~configured THEN [ok |-> FALSE, warned |-> FALSE, content |-> remote]
    ELSE IF outcome = "served" /\ ServiceAccepts(old_sha)
    THEN [ok |-> TRUE, warned |-> FALSE, content |-> new_obj]
    ELSE [ok |-> FALSE, warned |-> TRUE, content |-> remote]

\* write_favorites_local with the outcome of the file write: "served" writes
\* the document, "failed" raises before open(), "truncated" raises after
\* open(..., "w") has emptied the file.
write_favorites_local(new_obj, outcome) ==
    CASE outcome = "served" -> [ok |-> TRUE, warned |-> FALSE, content |-> new_obj]
      [] outcome = "truncated" -> [ok |-> FALSE, warned |-> TRUE, content |-> Doc("garbage", << >>)]
      [] OTHER -> [ok |-> FALSE, warned |-> TRUE, content |-> localFile]

\* ------------------------------------------------------------------ favorites store: state machine
NoCall ==
    [op |-> "none", sess |-> "A", user |-> "ann", favs |-> {}, ok |-> FALSE,
     raised |-> FALSE, warned |-> FALSE, outcome |-> "served", backend |-> "none",
     before |-> NoneObj, written |-> NoneObj, token |-> NoSha,
     remoteBefore |-> AbsentFile, localBefore |-> AbsentFile]

\* Documents the stores may hold when the process starts.
InitDocs ==
    { AbsentFile,
      Doc("ok", [x \in {"ann", "bob"} |-> IF x = "ann" THEN <<2, 1>> ELSE <<1>>]),
      Doc("nousers", << >>),
      Doc("list", << >>) }

\* ------------------------------------------------------------------ the script run
\* The aggregated table of the session: its CardKeys, with the columns the
\* filters read.
Cards == Keys
Espansione(k) == IF k = 1 THEN "151" ELSE "Paradosso Temporale"
Carta(k) == IF k = 1 THEN "Pikachu" ELSE "Raichu"
Expansions == {Espansione(k) : k \in Cards}
Queries == {"", "pika", "chu"}
\* work[COL_CARD].astype(str).str.lower().str.contains(q)
Contains(name, q) ==
    CASE q = "" -> TRUE
      [] q = "pika" -> name = "Pikachu"
      [] q = "chu" -> name \in {"Pikachu", "Raichu"}
      [] OTHER -> FALSE
username == "ann"
NoUpload == Doc("absent", << >>)
\* Files the user may import
ImportDocs ==
    { Doc("ok", [x \in {"ann", "bob"} |-> IF x = "ann" THEN <<1>> ELSE <<2>>]),
      Doc("ok", [x \in {"bob"} |-> <<1, 2>>]),
      Doc("list", << >>) }

\* Lines 367-370: the rows left by the expansion filter and the name query
Work(sel, q) == {k \in Cards : Espansione(k) \in sel /\ Contains(Carta(k), q)}
\* Line 384 and the editor's input: CardKey -> Preferito for the rows of work
View(sel, q, user_favs) == [k \in Work(sel, q) |-> k \in user_favs]
\* Line 419: the CardKeys whose Preferito is checked in the edited table
EditedFavs(view, ed) ==
    {k \in DOMAIN view : IF k \in DOMAIN ed THEN ed[k] ELSE view[k]}
\* Lines 461-464: the rows of the preview grid
Preview(view, ov, so) ==
    IF ov \/ so THEN {k \in DOMAIN view : view[k]} ELSE DOMAIN view

\* An import that replaces the edited set by the file's list.
merged_replace(imported, edited_favs) == set(ArrOf(imported, username))
\* Lines 445-446: arr = imported.get("users", {}).get(username, []);
\* merged = set(arr).union(edited_favs)
merged(imported, edited_favs) == set(ArrOf(imported, username)) \cup edited_favs

NoRun ==
    [pressed |-> FALSE, saveOk |-> FALSE, imported |-> FALSE, importOk |-> FALSE,
     backend |-> "none", favsBefore |-> {}, user_favs |-> {},
     toggAt |-> [k \in Cards |-> "unset"], unchecked |-> {}]

\* The favorites stored for a user in the backend a run used.
Stored(backendName, u) ==
    IF backendName = "github" THEN set(ArrOf(DecodeContent(remote), u))
    ELSE set(ArrOf(read_favorites_local, u))

\* The session's widgets while no script run is modelled.
UIIdle ==
    /\ sel_esp = Expansions /\ query = "" /\ show_only_favs = FALSE /\ override = FALSE
    /\ edBase = << >> /\ edits = << >> /\ togg = [k \in Cards |-> "unset"]
    /\ up = NoUpload /\ pending = FALSE /\ lastRun = NoRun /\ usteps = 0

\* ------------------------------------------------------------------ loader: state machine
\* The favorites store while only the loader runs.
FavIdle ==
    /\ configured = FALSE /\ remote = AbsentFile /\ localFile = AbsentFile
    /\ sess = [s \in Sessions |-> [user |-> "ann", favs |-> {}, backend |-> NoHandle, read |-> AbsentFile]]
    /\ hist = <<NoCall, NoCall>> /\ fsteps = 0 /\ ffails = 0

DataInit ==
    /\ disk \in [Files -> {Absent, "s1"}]
    /\ cacheOne = [f \in Files |-> [cached |-> FALSE, frame |-> << >>]]
    /\ cacheAll = {}
    /\ table = << >>
    /\ concat = << >>
    /\ truth = << >>
    /\ sigs = [n |-> 0, prev |-> << >>, last |-> << >>, ran |-> FALSE]
    /\ dsteps = 0
    /\ FavIdle
    /\ UIIdle

\* A file of the data directory is written, replaced or deleted from outside.
WriteFile(f, c) ==
    /\ dsteps < MaxDataSteps
    /\ disk[f] # c
    /\ disk' = [disk EXCEPT ![f] = c]
    /\ dsteps' = dsteps + 1
    /\ UNCHANGED <<cacheOne, cacheAll, table, concat, truth, sigs>>
    /\ UNCHANGED notData

\* load_all_data_dynamic called with the caches c1all, c1one: a hit of its own
\* cache returns the stored value; otherwise the body runs, load_one_excel
\* answering from its cache where it can.
LoadWith(c1one, c1all) ==
    LET files == discovered(disk)
        sig   == index_signature(disk)
        key   == <<files, sig>>
        hit   == key \in {e.key : e \in c1all}
        c1    == CacheOneAfter(files, disk, c1one)
        cat   == ConcatFrames(FramesOf(files, c1))
        df    == drop_duplicates(cat)
    IN  /\ sigs' = [n |-> IF sigs.n < 2 THEN sigs.n + 1 ELSE 2,
                    prev |-> sigs.last, last |-> sig, ran |-> ~hit]
        /\ truth' = drop_duplicates(ConcatFrames(FramesOf(files, FreshCache(files, disk))))
        /\ IF hit
           THEN /\ table' = (CHOOSE e \in c1all : e.key = key).value
                /\ cacheOne' = c1one
                /\ cacheAll' = c1all
                /\ UNCHANGED concat
           ELSE /\ cacheOne' = c1
                /\ concat' = cat
                /\ table' = df
                /\ cacheAll' = c1all \cup {[key |-> key, value |-> df]}

\* One script run up to "df, missing = load_all_data_dynamic(...)":
\* discover_expansions, then the cached call.
LoadAllData ==
    /\ dsteps < MaxDataSteps
    /\ dsteps' = dsteps + 1
    /\ LoadWith(cacheOne, cacheAll)
    /\ UNCHANGED disk
    /\ UNCHANGED notData

\* "Ricarica dati / clear cache": st.cache_data.clear(), st.rerun(), and the
\* rerun's load.
ClearCache ==
    /\ dsteps < MaxDataSteps
    /\ dsteps' = dsteps + 1
    /\ LoadWith([f \in Files |-> [cached |-> FALSE, frame |-> << >>]], {})
    /\ UNCHANGED disk
    /\ UNCHANGED notData

DataNext ==
    \/ \E f \in Files, c \in Contents \cup {Absent} : WriteFile(f, c)
    \/ LoadAllData
    \/ ClearCache

\* The loader while only the favorites store runs.
DataIdle ==
    /\ disk = [f \in Files |-> Absent]
    /\ cacheOne = [f \in Files |-> [cached |-> FALSE, frame |-> << >>]]
    /\ cacheAll = {} /\ table = << >> /\ concat = << >> /\ truth = << >>
    /\ sigs = [n |-> 0, prev |-> << >>, last |-> << >>, ran |-> FALSE]
    /\ dsteps = 0

FavInit ==
    /\ configured \in BOOLEAN
    /\ remote \in (IF configured THEN InitDocs \cup {Doc("garbage", << >>), Doc("null", << >>)}
                   ELSE {AbsentFile})
    /\ localFile \in (IF configured THEN {Doc("ok", [x \in {"ann"} |-> <<1>>])}
                      ELSE (InitDocs \ {Doc("list", << >>)}) \cup {Doc("badusers", << >>), Doc("null", << >>)})
    /\ sess \in [Sessions -> {[user |-> u, favs |-> {}, backend |-> NoHandle, read |-> AbsentFile] :
                                u \in Users}]
    /\ sess["A"].user = "ann"
    /\ hist = <<NoCall, NoCall>>
    /\ fsteps = 0
    /\ ffails = 0
    /\ DataIdle
    /\ UIIdle

Failed(outcome) == IF outcome = "served" THEN 0 ELSE 1

\* Session s calls load_user_favorites(username) (script line 382).
Load(s, outcome) ==
    LET r   == read_favorites_from_github(outcome)
        res == load_user_favorites(sess[s].user, r)
    IN  /\ fsteps < MaxFavSteps
        /\ ffails + Failed(outcome) <= MaxFailures
        /\ configured \/ outcome = "served"
        /\ fsteps' = fsteps + 1
        /\ ffails' = ffails + Failed(outcome)
        /\ sess' = [sess EXCEPT ![s] = [user |-> @.user, favs |-> res.favs,
                                        backend |-> res.backend, read |-> remote]]
        /\ hist' = <<hist[2],
                     [NoCall EXCEPT !.op = "load", !.sess = s, !.user = sess[s].user,
                                    !.favs = res.favs, !.raised = res.raised,
                                    !.warned = r.warned, !.outcome = outcome,
                                    !.backend = res.backend.name,
                                    !.before = res.backend.obj, !.token = res.backend.sha,
                                    !.remoteBefore = remote, !.localBefore = localFile]>>
        /\ UNCHANGED <<configured, remote, localFile>>
        /\ UNCHANGED notFav

\* Session s calls save_user_favorites(username, S, backend) with the handle
\* of its last load.
Save(s, S, outcome) ==
    LET h   == sess[s].backend
        obj == SavedObj(h.obj, sess[s].user, S)
        w   == IF h.name = "github"
               THEN write_favorites_to_github(obj, TokenForWrite(h), outcome)
               ELSE write_favorites_local(obj, outcome)
    IN  /\ fsteps < MaxFavSteps
        /\ ffails + Failed(outcome) <= MaxFailures
        /\ h.name # "none"
        /\ outcome \in (IF h.name = "github" THEN {"served", "neterr", "http5xx"}
                        ELSE {"served", "failed", "truncated"})
        /\ fsteps' = fsteps + 1
        /\ ffails' = ffails + Failed(outcome)
        /\ remote' = IF h.name = "github" THEN w.content ELSE remote
        /\ localFile' = IF h.name = "local" THEN w.content ELSE localFile
        \* obj is the handle's own dict, changed in place; a save that returns
        \* True ends the run (st.rerun()), and the next run loads a new handle
        /\ sess' = [sess EXCEPT ![s].backend = IF w.ok THEN NoHandle
                                               ELSE [@ EXCEPT !.obj = obj]]
        /\ hist' = <<hist[2],
                     [NoCall EXCEPT !.op = "save", !.sess = s, !.user = sess[s].user,
                                    !.favs = S, !.ok = w.ok, !.warned = w.warned,
                                    !.outcome = outcome, !.backend = h.name,
                                    !.before = h.obj, !.written = obj,
                                    !.token = TokenForWrite(h),
                                    !.remoteBefore = remote, !.localBefore = localFile]>>
        /\ UNCHANGED configured
        /\ UNCHANGED notFav

FavNext ==
    \/ \E s \in Sessions, o \in {"served", "neterr", "http5xx", "badbody"} : Load(s, o)
    \/ \E s \in Sessions, S \in SUBSET Keys,
          o \in {"served", "neterr", "http5xx", "failed", "truncated"} : Save(s, S, o)

\* ------------------------------------------------------------------ the script run: state machine
UIInit ==
    /\ configured \in BOOLEAN
    /\ remote \in (IF configured
                   THEN {AbsentFile,
                         Doc("ok", [x \in {"ann", "bob"} |-> IF x = "ann" THEN <<1, 2>> ELSE <<1>>])}
                   ELSE {AbsentFile})
    /\ localFile \in (IF configured THEN {AbsentFile}
                      ELSE {AbsentFile,
                            Doc("ok", [x \in {"ann", "bob"} |-> IF x = "ann" THEN <<1, 2>> ELSE <<1>>])})
    /\ sess = [s \in Sessions |-> [user |-> "ann", favs |-> {}, backend |-> NoHandle, read |-> AbsentFile]]
    /\ hist = <<NoCall, NoCall>> /\ fsteps = 0 /\ ffails = 0
    /\ DataIdle
    \* the widgets' defaults, before the first run has drawn anything
    /\ sel_esp = Expansions
    /\ query = ""
    /\ show_only_favs = FALSE
    /\ override = FALSE
    /\ edBase = << >>
    /\ edits = << >>
    /\ togg = [k \in Cards |-> "unset"]
    /\ up = NoUpload
    /\ pending = TRUE
    /\ lastRun = NoRun
    /\ usteps = 0

\* One run of the script for the signed-in user, lines 366-498, with the
\* widget values it reads: the filters, the editor's cells, the toggles, the
\* uploaded file, whether "Salva preferiti" was pressed, and the outcomes o1,
\* o2 of the writes of the save button and of the import.
ScriptRun(sel, q, so, ed, tg, upl, pressed, o1, o2) ==
    LET res         == load_user_favorites(username, read_favorites_from_github("served"))
        user_favs   == res.favs
        backend     == res.backend
        view        == View(sel, q, user_favs)
        \* st.data_editor drops its edits when the table it is given changes
        ed1         == IF view = edBase THEN ed ELSE << >>
        edited_favs == EditedFavs(view, ed1)
        \* line 426
        obj1        == SavedObj(backend.obj, username, edited_favs)
        w1          == IF backend.name = "github"
                       THEN write_favorites_to_github(obj1, TokenForWrite(backend), o1)
                       ELSE write_favorites_local(obj1, o1)
        saveOk      == pressed /\ w1.ok
        \* lines 442-447: reached unless the save reran the script; a file
        \* without .get raises into "File JSON non valido"
        importing   == ~saveOk /\ upl # NoUpload /\ ~GetRaises(upl)
        backend2    == IF pressed THEN [backend EXCEPT !.obj = obj1] ELSE backend
        obj2        == SavedObj(backend2.obj, username, merged(upl, edited_favs))
        w2          == IF backend.name = "github"
                       THEN write_favorites_to_github(obj2, TokenForWrite(backend2), o2)
                       ELSE write_favorites_local(obj2, o2)
        importOk    == importing /\ w2.ok
        content     == IF saveOk THEN w1.content
                       ELSE IF importOk THEN w2.content
                       ELSE IF backend.name = "github" THEN remote ELSE localFile
        \* lines 461-498, reached unless st.rerun() ended the run
        preview     == Preview(view, override, so)
        newval(k)   == IF tg[k] = "unset" THEN view[k] ELSE tg[k] = "on"
        flipped     == {k \in preview : newval(k) # view[k]}
        favsEnd     == (user_favs \cup {k \in flipped : newval(k)})
                           \ {k \in flipped : ~newval(k)}
        rerun       == saveOk \/ importOk
    IN  /\ usteps < MaxUISteps
        /\ usteps' = usteps + 1
        /\ ~res.raised
        /\ o1 \in (IF backend.name = "github" THEN {"served", "neterr"} ELSE {"served", "failed"})
        /\ o2 \in (IF backend.name = "github" THEN {"served", "neterr"} ELSE {"served", "failed"})
        /\ pressed \/ o1 = "served"
        /\ importing \/ o2 = "served"
        /\ sel_esp' = sel /\ query' = q /\ show_only_favs' = so /\ up' = upl
        /\ edBase' = view
        /\ edits' = ed1
        /\ remote' = IF backend.name = "github" THEN content ELSE remote
        /\ localFile' = IF backend.name = "local" THEN content ELSE localFile
        /\ pending' = rerun
        /\ togg' = IF rerun THEN tg
                   ELSE [k \in Cards |-> IF k \in preview THEN tg[k] ELSE "unset"]
        /\ override' = IF ~rerun /\ flipped # {} THEN so ELSE override
        /\ lastRun' = [pressed |-> pressed, saveOk |-> saveOk,
                       imported |-> importing, importOk |-> importOk,
                       backend |-> backend.name, favsBefore |-> user_favs,
                       user_favs |-> IF rerun THEN user_favs ELSE favsEnd,
                       toggAt |-> tg,
                       unchecked |-> {k \in DOMAIN ed1 : ~ed1[k]} \cup {k \in Cards : tg[k] = "off"}]
        /\ UNCHANGED <<configured, sess, hist, fsteps, ffails>>
        /\ UNCHANGED dataVars

\* The run st.rerun() asked for, or the session's first run.
Rerun(o2) ==
    /\ pending
    /\ ScriptRun(sel_esp, query, show_only_favs, edits, togg, up, FALSE, "served", o2)

\* The user changes the expansion filter or the name query.
SetFilter(sel, q, o2) ==
    /\ ~pending
    /\ <<sel, q>> # <<sel_esp, query>>
    /\ ScriptRun(sel, q, show_only_favs, edits, togg, up, FALSE, "served", o2)

\* The user flips "Mostra solo Preferiti".
SetShowOnly(o2) ==
    /\ ~pending
    /\ ScriptRun(sel_esp, query, ~show_only_favs, edits, togg, up, FALSE, "served", o2)

\* The user flips the Preferito checkbox of a row of the data editor.
EditCell(k, o2) ==
    /\ ~pending
    /\ k \in DOMAIN edBase
    /\ ScriptRun(sel_esp, query, show_only_favs,
                 [x \in DOMAIN edits \cup {k} |->
                     IF x = k THEN ~(IF k \in DOMAIN edits THEN edits[k] ELSE edBase[k])
                     ELSE edits[x]],
                 togg, up, FALSE, "served", o2)

\* The user flips the toggle of a tile of the preview grid.
FlipToggle(k, o2) ==
    /\ ~pending
    /\ k \in Preview(edBase, override, show_only_favs)
    /\ ScriptRun(sel_esp, query, show_only_favs, edits,
                 [togg EXCEPT ![k] =
                     IF (IF togg[k] = "unset" THEN edBase[k] ELSE togg[k] = "on")
                     THEN "off" ELSE "on"],
                 up, FALSE, "served", o2)

\* The user presses "Salva preferiti".
PressSave(o1, o2) ==
    /\ ~pending
    /\ ScriptRun(sel_esp, query, show_only_favs, edits, togg, up, TRUE, o1, o2)

\* The user puts a file into the uploader.
Upload(doc, o2) ==
    /\ ~pending
    /\ up = NoUpload
    /\ ScriptRun(sel_esp, query, show_only_favs, edits, togg, doc, FALSE, "served", o2)

\* The user removes the file from the uploader.
RemoveUpload ==
    /\ up # NoUpload
    /\ ScriptRun(sel_esp, query, show_only_favs, edits, togg, NoUpload, FALSE, "served", "served")

Outcomes == {"served", "neterr", "failed"}

UINext ==
    \/ \E o2 \in Outcomes : Rerun(o2)
    \/ \E sel \in SUBSET Expansions, q \in Queries, o2 \in Outcomes : SetFilter(sel, q, o2)
    \/ \E o2 \in Outcomes : SetShowOnly(o2)
    \/ \E k \in Cards, o2 \in Outcomes : EditCell(k, o2)
    \/ \E k \in Cards, o2 \in Outcomes : FlipToggle(k, o2)
    \/ \E o1 \in Outcomes, o2 \in Outcomes : PressSave(o1, o2)
    \/ \E doc \in ImportDocs, o2 \in Outcomes : Upload(doc, o2)
    \/ RemoveUpload

SpecData == DataInit /\ [][DataNext]_vars
SpecFav == FavInit /\ [][FavNext]_vars
SpecUI == UIInit /\ [][UINext]_vars

\* ------------------------------------------------------------------ claims on the loader
FirstIndex(df, k) == CHOOSE i \in 1..Len(df) : df[i].key = k /\ \A j \in 1..(i-1) : df[j].key # k
KeysOf(df) == {df[i].key : i \in 1..Len(df)}

\* C3: whenever the change signature of a load differs from the one of the
\* previous load, every listed file is parsed again: the returned table is the
\* one the current content of the files gives.
C3_ChangedSignatureReparses ==
    (sigs.n = 2 /\ sigs.last # sigs.prev) => table = truth

\* C4: in the table load_all_data_dynamic returns every CardKey occurs once;
\* the row kept for a key is the first row of the concatenation with that key,
\* and the kept rows stand in the order they had in the concatenation.
C4_DedupFirstWins ==
    /\ \A p, q \in 1..Len(table) : table[p].key = table[q].key => p = q
    /\ sigs.ran =>
        /\ KeysOf(table) = KeysOf(concat)
        /\ \A p \in 1..Len(table) : table[p] = concat[FirstIndex(concat, table[p].key)]
        /\ \A p, q \in 1..Len(table) :
              p < q => FirstIndex(concat, table[p].key) < FirstIndex(concat, table[q].key)

\* A load whose concatenation held one key in two rows of different files and
\* in two rows of one file, with different field values.
C4_Witness ==
    /\ sigs.ran
    /\ Len(table) >= 2
    /\ \E i, j \in 1..Len(concat) :
          /\ i < j /\ concat[i].key = concat[j].key
          /\ concat[i].val = "s1r1" /\ concat[j].val = "s2r2"
    /\ \E i, j \in 1..Len(concat) :
          /\ i < j /\ concat[i].key = concat[j].key
          /\ concat[i].val = "s3r1" /\ concat[j].val = "s3r2"

\* ------------------------------------------------------------------ claims on the favorites store
prev == hist[1]
last == hist[2]
IsSortedList(arr) == \A i, j \in 1..Len(arr) : i < j => arr[i] < arr[j]
RemoteReadFailed(o) == o \in {"neterr", "http5xx"}

C2_BackendSelection ==
    (last.op = "load" /\ ~last.raised) =>
        /\ (last.backend = "local") <=> ~configured
        /\ (configured /\ last.outcome = "served" /\ last.remoteBefore.kind = "absent")
              => (last.favs = {} /\ last.backend = "github" /\ last.token = NoSha)
        /\ (configured /\ RemoteReadFailed(last.outcome))
              => (last.backend = "none" /\ last.warned)

\* C2 amended: a load that returns is served from the local file exactly when
\* the remote read gave no document (unconfigured, network error, a status
\* other than 200 and 404, or a stored JSON null); "not found" gives the empty
\* set with a remote handle and no token; a failed read gives a warning and
\* then the local file's list of the user (none when the file is missing or
\* does not parse), with a local handle.
C2_FallbackOnNoDocument ==
    (last.op = "load" /\ ~last.raised) =>
        /\ (last.backend = "local") <=>
              \/ ~configured
              \/ RemoteReadFailed(last.outcome)
              \/ (last.outcome = "served" /\ last.remoteBefore.kind = "null")
        /\ (configured /\ last.outcome = "served" /\ last.remoteBefore.kind = "absent")
              => (last.favs = {} /\ last.backend = "github" /\ last.token = NoSha)
        /\ (configured /\ RemoteReadFailed(last.outcome))
              => LET loc == IF last.localBefore.kind \in {"absent", "garbage"}
                            THEN Doc("ok", << >>) ELSE last.localBefore
                 IN  /\ last.warned
                     /\ last.backend = "local"
                     /\ last.before = loc
                     /\ \A k \in Keys : k \in last.favs <=>
                            /\ last.user \in DOMAIN loc.users
                            /\ \E i \in 1..Len(loc.users[last.user]) :
                                  loc.users[last.user][i] = k

\* The remote is configured, its GET ended in a network error, and the load
\* returned the local file's favorites of the user.
C2_Witness ==
    /\ last.op = "load" /\ configured /\ last.outcome = "neterr"
    /\ last.backend = "local" /\ last.favs = {1} /\ last.warned

\* A configured remote answered "not found".
C2_WitnessNotFound ==
    /\ last.op = "load" /\ configured /\ last.outcome = "served"
    /\ last.remoteBefore.kind = "absent" /\ last.backend = "github"

\* C5: the document save_user_favorites(u, S, h) writes maps u to S as a sorted
\* list and every other user of h's document to the list it had; no user is
\* added or removed; the write goes to the backend h names.
C5_SaveFrame ==
    last.op = "save" =>
        LET w == last.written
            D == last.before
            u == last.user
        IN  /\ w.kind = "ok"
            /\ DOMAIN w.users = DOMAIN UsersOf(D) \cup {u}
            /\ IsSortedList(w.users[u])
            /\ {w.users[u][i] : i \in 1..Len(w.users[u])} = last.favs
            /\ Len(w.users[u]) = Cardinality(last.favs)
            /\ \A v \in DOMAIN UsersOf(D) : v # u => w.users[v] = D.users[v]
            /\ last.backend = "github" =>
                  (localFile = last.localBefore /\ (last.ok => remote = w))
            /\ last.backend = "local" =>
                  (remote = last.remoteBefore /\ (last.ok => localFile = w))

\* ann saved {1, 2} over her unsorted list while the document also held bob's.
C5_Witness ==
    /\ last.op = "save" /\ last.ok /\ last.user = "ann" /\ last.favs = {1, 2}
    /\ last.before = Doc("ok", [x \in {"ann", "bob"} |-> IF x = "ann" THEN <<2, 1>> ELSE <<1>>])
    /\ last.written.users["bob"] = <<1>>

\* C6 as stated: two sessions read the same remote version, one saves
\* successfully; the other's save with its earlier handle is then rejected,
\* returns False and leaves the remote document as the first writer left it.
C6_StaleRejected ==
    (prev.op = "save" /\ prev.ok /\ prev.backend = "github"
        /\ last.op = "save" /\ last.backend = "github" /\ last.sess # prev.sess
        /\ sess[last.sess].read = prev.remoteBefore)
        => (~last.ok /\ remote = prev.written)

\* C6 amended: a remote save is accepted only while the remote document is
\* still the content its session read, and a save against any other content
\* returns False and changes nothing; so the second of two sessions that read
\* one version is rejected whenever the first one's save changed the document.
C6_NoSilentOverwrite ==
    /\ (last.op = "save" /\ last.backend = "github") =>
          IF sess[last.sess].read = last.remoteBefore
          THEN last.ok => remote = last.written
          ELSE ~last.ok /\ remote = last.remoteBefore
    /\ (prev.op = "save" /\ prev.ok /\ prev.backend = "github"
          /\ last.op = "save" /\ last.backend = "github" /\ last.sess # prev.sess
          /\ sess[last.sess].read = prev.remoteBefore
          /\ prev.written # prev.remoteBefore)
          => (~last.ok /\ remote = prev.written)

\* Both sessions read one version, the first save changed it and was accepted,
\* the second save reached the service and was rejected.
C6_Witness ==
    /\ prev.op = "save" /\ prev.ok /\ prev.backend = "github"
    /\ prev.written # prev.remoteBefore
    /\ last.op = "save" /\ last.backend = "github" /\ last.sess # prev.sess
    /\ sess[last.sess].read = prev.remoteBefore
    /\ last.outcome = "served" /\ ~last.ok /\ remote = prev.written

\* C7: load_user_favorites and save_user_favorites always return a value.
C7_NeverRaises == ~last.raised

\* ------------------------------------------------------------------ claims on the script run
\* C8: after a successful import by user u of a document {"users": {u: [...]}}
\* while the edited set is E, the set stored for u is the imported keys of u
\* united with E; keys the document lists under other usernames are not added.
C8_ImportMerges ==
    lastRun.importOk =>
        Stored(lastRun.backend, username) =
            {k \in Keys :
                \/ /\ username \in DOMAIN up.users
                   /\ \E i \in 1..Len(up.users[username]) : up.users[username][i] = k
                \/ /\ k \in DOMAIN edBase
                   /\ IF k \in DOMAIN edits THEN edits[k] ELSE edBase[k]}

\* ann imported a file listing key 1 for her and key 2 for bob while only
\* key 2 was checked in the editor: both keys are stored for her.
C8_Witness ==
    /\ lastRun.importOk
    /\ up = Doc("ok", [x \in {"ann", "bob"} |-> IF x = "ann" THEN <<1>> ELSE <<2>>])
    /\ EditedFavs(edBase, edits) = {2}
    /\ Stored(lastRun.backend, username) = {1, 2}

\* C9: when the user has flipped the toggle of a preview tile and then presses
\* "Salva preferiti" and the save succeeds, the stored set reflects the toggle
\* (for a card whose editor cell the user did not edit).
C9_ToggleConfirmedBySave ==
    (lastRun.pressed /\ lastRun.saveOk) =>
        \A k \in Cards \ DOMAIN edits :
            /\ lastRun.toggAt[k] = "on" => k \in Stored(lastRun.backend, username)
            /\ lastRun.toggAt[k] = "off" => k \notin Stored(lastRun.backend, username)

\* C10: a successful save or import leaves in the stored set every key that
\* was stored before and that the user did not uncheck, whatever the filters.
C10_SaveKeepsFavorites ==
    (lastRun.saveOk \/ lastRun.importOk) =>
        \A k \in lastRun.favsBefore :
            k \in lastRun.unchecked \/ k \in Stored(lastRun.backend, username)

====
